---- MODULE Spec2Model ----
(***************************************************************************)
(* Model of the AWX inventory controller (awx-inventory): the watch loop   *)
(* of kubernetes.Client.WatchVMs, the event handlers of                    *)
(* controller.Controller and the AWX client calls they make.               *)
(*                                                                         *)
(* Every Go function that talks to AWX is an operator that returns the SET *)
(* of its possible results, one per answer the remote can give; F is the   *)
(* set of faults the remote may inject into a call (F = {} is a remote     *)
(* that always answers properly).                                          *)
(***************************************************************************)
EXTENDS Integers, Sequences, FiniteSets, TLC

VARIABLES
    prefix,         \* Controller.prefix: INVENTORY_PREFIX as main reads it
    awxToken,       \* AWX_TOKEN as main reads it from the environment
    startup,        \* what Initialize has established: the ping answer, the organization id
    pc,             \* position of the process: main, init, subscribing, watching, sleeping,
                    \* returned (Run has returned or main has exited)
    runErr,         \* the error Run returned (Nil while running)
    cancelled,      \* ctx.Done() is closed
    inventoryCache, \* Controller.inventoryCache: namespace -> inventory id
    awx,            \* remote AWX state: organizations, inventories, hosts
    ch,             \* events waiting on watcher.ResultChan()
    chOpen,         \* the result channel has not been closed
    delivered,      \* number of events the watcher has put on a channel
    reconnects,     \* number of times the watch was restarted
    createCalls,    \* namespace -> number of CreateInventory calls issued
    last,           \* <<>> or <<record of the event received last>>
    prev,           \* <<>> or <<summary of the event received before last>>
    inst,           \* engine instances resolving a namespace side by side (SpecRace)
    reply           \* <<>> or <<the client call made last and its result>> (SpecClient)

vars == <<prefix, awxToken, startup, pc, runErr, cancelled, inventoryCache, awx, ch,
          chOpen, delivered, reconnects, createCalls, last, prev, inst, reply>>

\* the variables of one engine process, the remote left out
engine == <<prefix, awxToken, startup, pc, runErr, cancelled, inventoryCache, ch, chOpen,
            delivered, reconnects, createCalls, last, prev>>

----------------------------------------------------------------------------
(* Bounds of the model *)

MaxChan == 2
MaxDelivered == 2
MaxReconnects == 1
MaxId == 2

(* Configuration and inputs *)

Nil == "nil"
organization == "Default"
Prefixes == {"", "k8s"}
Namespaces == {"ns1", "ns2"}
Faults == {"neterr", "status", "badbody", "raced", "rejected"}
NoFaults == {}

Labels1 == {<<"tier", "web">>}

Obj(namespace, name, status) ==
    [metadata |-> [namespace |-> namespace, name |-> name, labels |-> Labels1],
     status |-> status]

\* a VirtualMachine without metadata.labels
Bare(namespace, name, status) ==
    [metadata |-> [namespace |-> namespace, name |-> name], status |-> status]

Event(type, isObject, object) == [Type |-> type, isObject |-> isObject, Object |-> object]

\* the events the watcher may deliver
Events ==
    { Event("ADDED", TRUE, Obj("ns1", "vm1", [phase |-> "Pending"])),
      Event("MODIFIED", TRUE, Obj("ns1", "vm1", [ipAddress |-> ""])),
      Event("ADDED", TRUE, Obj("ns1", "vm1", [ipAddress |-> "10.0.0.5"])),
      Event("MODIFIED", TRUE, Obj("ns1", "vm1", [ipAddress |-> "10.0.0.6"])),
      Event("ADDED", TRUE, Bare("ns2", "vm1", [ipAddress |-> "10.0.0.5"])),
      Event("DELETED", TRUE, Obj("ns1", "vm1", [ipAddress |-> "10.0.0.5"])),
      Event("BOOKMARK", TRUE, [metadata |-> [resourceVersion |-> "7"]]),
      Event("ERROR", FALSE, [status |-> "Failure"]) }

----------------------------------------------------------------------------
(* The AWX client (internal/awx/client.go) *)

Res(ret, err, a, calls) == [ret |-> ret, err |-> err, awx |-> a, calls |-> calls]

Call(op, id, name) == [op |-> op, id |-> id, name |-> name]

FirstID(rs) == CHOOSE i \in {r.id : r \in rs} : \A r \in rs : i <= r.id

GetOrganizationID(a, name, F) ==
    LET c == <<Call("GetOrganizationID", 0, name)>>
        results == {o \in a.organizations : o.name = name}
    IN  {IF results = {} THEN Res(0, "organization not found", a, c)
                         ELSE Res(FirstID(results), Nil, a, c)}
        \cup {Res(0, f, a, c) : f \in F \cap {"neterr", "status", "badbody"}}

GetInventoryID(a, name, F) ==
    LET c == <<Call("GetInventoryID", 0, name)>>
        results == {i \in a.inventories : i.name = name}
    IN  {IF results = {} THEN Res(0, Nil, a, c)
                         ELSE Res(FirstID(results), Nil, a, c)}
        \cup {Res(0, f, a, c) : f \in F \cap {"neterr", "status", "badbody"}}

\* mutant: a 400 is returned as an error like any other status
CreateInventoryNoFallback(a, name, orgID, F) ==
    LET c == <<[op |-> "CreateInventory", id |-> orgID, name |-> name]>>
        exists == \E i \in a.inventories : i.name = name
        orgOK == \E o \in a.organizations : o.id = orgID
        created == [a EXCEPT !.inventories = @ \cup {[id |-> a.nextInv, name |-> name]},
                             !.nextInv = @ + 1]
    IN  {IF exists \/ ~orgOK
         THEN [ret |-> 0, err |-> "failed to create inventory", awx |-> a, calls |-> c]
         ELSE [ret |-> a.nextInv, err |-> "nil", awx |-> created, calls |-> c]}

\* POST /api/v2/inventories/: AWX answers 201, or 400 for an inventory name that
\* exists or an unknown organization
CreateInventory(a, name, orgID, F) ==
    LET c == <<Call("CreateInventory", orgID, name)>>
        exists == \E i \in a.inventories : i.name = name
        orgOK == \E o \in a.organizations : o.id = orgID
        created == [a EXCEPT !.inventories = @ \cup {[id |-> a.nextInv, name |-> name]},
                             !.nextInv = @ + 1]
        \* HTTP 400: fall back to the lookup by name
        Fallback(b) == {Res(r.ret, r.err, b, c \o r.calls) : r \in GetInventoryID(b, name, F)}
        answered == IF exists \/ ~orgOK THEN Fallback(a)
                                        ELSE {Res(a.nextInv, Nil, created, c)}
        \* another actor created the inventory between the lookup and the POST
        raced == IF "raced" \in F /\ ~exists /\ orgOK THEN Fallback(created) ELSE {}
        \* HTTP 400 for a reason other than an existing inventory
        rejected == IF "rejected" \in F THEN Fallback(a) ELSE {}
        \* HTTP 201 with a body that does not decode
        undecoded == IF "badbody" \in F /\ ~exists /\ orgOK
                     THEN {Res(0, "badbody", created, c)} ELSE {}
    IN  answered \cup raced \cup rejected \cup undecoded
        \cup {Res(0, f, a, c) : f \in F \cap {"neterr", "status"}}

\* GET /api/v2/inventories/<invID>/groups/?name=, then POST /api/v2/inventories/<invID>/groups/:
\* AWX answers the POST 201, or 400 for a group name the inventory already
\* holds, or 404 for an unknown inventory
GetOrCreateGroup(a, invID, groupName, F) ==
    LET g == <<Call("GET group", invID, groupName)>>
        p == <<Call("POST group", invID, groupName)>>
        Named(b) == {x \in b.groups : x.inventory = invID /\ x.name = groupName}
        invOK == \E i \in a.inventories : i.id = invID
        Created(b) == [b EXCEPT !.groups = @ \cup {[id |-> b.nextGroup, inventory |-> invID,
                                                    name |-> groupName]},
                                !.nextGroup = @ + 1]
        \* only 201 is a success; every other status is returned as an error
        Post(b) ==
            {IF ~invOK THEN Res(0, "failed to create group: HTTP 404", b, g \o p)
             ELSE IF Named(b) # {} THEN Res(0, "failed to create group: HTTP 400", b, g \o p)
             ELSE Res(b.nextGroup, Nil, Created(b), g \o p)}
            \cup (IF "badbody" \in F /\ invOK /\ Named(b) = {}
                  THEN {Res(0, "badbody", Created(b), g \o p)} ELSE {})
            \cup {Res(0, f, b, g \o p) : f \in F \cap {"neterr", "status"}}
        answered == IF Named(a) # {} THEN {Res(FirstID(Named(a)), Nil, a, g)} ELSE Post(a)
        \* a lookup answered with a status other than 200 goes on to the POST
        notOK == IF "status" \in F THEN Post(a) ELSE {}
        \* another actor created the group between the lookup and the POST
        raced == IF "raced" \in F /\ Named(a) = {} /\ invOK THEN Post(Created(a)) ELSE {}
    IN  answered \cup notOK \cup raced
        \cup {Res(0, f, a, g) : f \in F \cap {"neterr", "badbody"}}

\* mutant: the host is looked up by name in every inventory
GetHostIDAnyInventory(a, invID, hostName, F) ==
    LET c == <<[op |-> "GetHostID", id |-> invID, name |-> hostName]>>
        results == {h \in a.hosts : h.name = hostName}
    IN  {IF results = {} THEN [ret |-> 0, err |-> "nil", awx |-> a, calls |-> c]
                         ELSE [ret |-> FirstID(results), err |-> "nil", awx |-> a, calls |-> c]}

\* GET /api/v2/inventories/<invID>/hosts/?name=<hostName>
GetHostID(a, invID, hostName, F) ==
    LET c == <<Call("GetHostID", invID, hostName)>>
        results == {h \in a.hosts : h.inventory = invID /\ h.name = hostName}
    IN  {IF results = {} THEN Res(0, Nil, a, c)
                         ELSE Res(FirstID(results), Nil, a, c)}
        \cup (IF "status" \in F THEN {Res(0, Nil, a, c)} ELSE {})
        \cup {Res(0, f, a, c) : f \in F \cap {"neterr", "badbody"}}

\* json.Marshal of the host variables: an object with its keys sorted
Marshal(hostVars) ==
    << <<"ansible_host", hostVars.ansible_host>>,
       <<"labels", hostVars.labels>>,
       <<"vm_name", hostVars.vm_name>>,
       <<"vm_namespace", hostVars.vm_namespace>> >>

\* mutant: the host is always created
HostFoundNever(hostID) == FALSE

\* hostID > 0: the lookup found the host
HostFound(hostID) == hostID > 0

\* mutant: the PATCH payload leaves the variables out
UpdateHostNameOnly(a, hostID, hostName, varsJSON, F) ==
    LET c == <<[op |-> "PATCH host", id |-> hostID, name |-> hostName]>>
        exists == \E h \in a.hosts : h.id = hostID
        patched == [a EXCEPT !.hosts =
                       {IF h.id = hostID THEN [h EXCEPT !.name = hostName] ELSE h : h \in @}]
    IN  {IF exists THEN [ret |-> 0, err |-> "nil", awx |-> patched, calls |-> c]
                   ELSE [ret |-> 0, err |-> "failed to update host", awx |-> a, calls |-> c]}

\* PATCH /api/v2/hosts/<hostID>/
UpdateHost(a, hostID, hostName, varsJSON, F) ==
    LET c == <<Call("PATCH host", hostID, hostName)>>
        exists == \E h \in a.hosts : h.id = hostID
        patched == [a EXCEPT !.hosts =
                       {IF h.id = hostID
                        THEN [h EXCEPT !.name = hostName, !.variables = varsJSON]
                        ELSE h : h \in @}]
    IN  {IF exists THEN Res(0, Nil, patched, c)
                   ELSE Res(0, "failed to update host", a, c)}
        \cup {Res(0, f, a, c) : f \in F \cap {"neterr", "status"}}

\* POST /api/v2/inventories/<invID>/hosts/: AWX answers 201, or 404 for an unknown
\* inventory, or 400 for a host name the inventory already holds
CreateHost(a, invID, hostName, varsJSON, F) ==
    LET c == <<Call("POST host", invID, hostName)>>
        invOK == \E i \in a.inventories : i.id = invID
        exists == \E h \in a.hosts : h.inventory = invID /\ h.name = hostName
        created == [a EXCEPT !.hosts = @ \cup {[id |-> a.nextHost, inventory |-> invID,
                                                name |-> hostName, variables |-> varsJSON]},
                             !.nextHost = @ + 1]
    IN  {IF invOK /\ ~exists THEN Res(0, Nil, created, c)
                             ELSE Res(0, "failed to create host", a, c)}
        \cup {Res(0, f, a, c) : f \in F \cap {"neterr", "status"}}

CreateOrUpdateHost(a, invID, hostName, hostVars, F) ==
    UNION { LET w == IF HostFound(g.ret)
                     THEN UpdateHost(a, g.ret, hostName, Marshal(hostVars), F)
                     ELSE CreateHost(a, invID, hostName, Marshal(hostVars), F)
            IN  {Res(0, r.err, r.awx, g.calls \o r.calls) : r \in w}
          : g \in GetHostID(a, invID, hostName, F) }

DeleteHost(a, invID, hostName, F) ==
    UNION { IF g.err # Nil \/ g.ret = 0
            THEN {Res(0, Nil, a, g.calls)}
            ELSE LET c == <<Call("DELETE host", g.ret, hostName)>>
                     exists == \E h \in a.hosts : h.id = g.ret
                     removed == [a EXCEPT !.hosts = {h \in @ : h.id # g.ret}]
                 IN  {Res(0, Nil, IF exists THEN removed ELSE a, g.calls \o c)}
                     \cup {Res(0, f, a, g.calls \o c) : f \in F \cap {"neterr", "status"}}
          : g \in GetHostID(a, invID, hostName, F) }

----------------------------------------------------------------------------
(* Reading the watched object (internal/kubernetes/client.go) *)

\* unstructured.NestedString(obj.Object, k1, k2)
NestedString(obj, k1, k2) ==
    IF k1 \in DOMAIN obj /\ k2 \in DOMAIN obj[k1]
    THEN [val |-> obj[k1][k2], found |-> TRUE]
    ELSE [val |-> "", found |-> FALSE]

\* unstructured.NestedStringMap(obj.Object, k1, k2)
NestedStringMap(obj, k1, k2) ==
    IF k1 \in DOMAIN obj /\ k2 \in DOMAIN obj[k1]
    THEN [val |-> obj[k1][k2], found |-> TRUE]
    ELSE [val |-> {}, found |-> FALSE]

UnstructuredToVM(obj) ==
    LET namespace == NestedString(obj, "metadata", "namespace")
        name == NestedString(obj, "metadata", "name")
        ip == NestedString(obj, "status", "ipAddress")
        labels == NestedStringMap(obj, "metadata", "labels")
    IN  [Name |-> IF name.found THEN name.val ELSE "",
         Namespace |-> IF namespace.found THEN namespace.val ELSE "",
         IP |-> IF ip.found THEN ip.val ELSE "",
         Labels |-> IF labels.found THEN labels.val ELSE {}]

----------------------------------------------------------------------------
(* The controller (internal/controller/controller.go) *)

Out(ret, err, cache, a, calls) ==
    [ret |-> ret, err |-> err, cache |-> cache, awx |-> a, calls |-> calls]

\* mutant: the cache is never hit
CacheHitNever(cache, namespace) == FALSE

\* invID, exists := c.inventoryCache[namespace]
CacheHit(cache, namespace) == namespace \in DOMAIN cache

\* mutant: storing an entry drops the entries of the other namespaces
CachePutAlone(cache, namespace, invID) == [n \in {namespace} |-> invID]

\* c.inventoryCache[namespace] = invID
CachePut(cache, namespace, invID) ==
    [n \in DOMAIN cache \cup {namespace} |-> IF n = namespace THEN invID ELSE cache[n]]

\* mutant: prefix and namespace are always joined by the separator
InventoryNameJoined(pfx, namespace) == pfx \o " " \o namespace

\* fmt.Sprintf("%s %s", c.prefix, namespace), or the namespace alone
InventoryName(pfx, namespace) ==
    IF pfx # "" THEN pfx \o " " \o namespace ELSE namespace

getOrCreateInventoryForNamespace(cache, a, namespace, F) ==
    IF CacheHit(cache, namespace)
    THEN {Out(cache[namespace], Nil, cache, a, <<>>)}
    ELSE LET inventoryName == InventoryName(prefix, namespace)
             Create(o, i) ==
                 {IF r.err # Nil
                  THEN Out(0, r.err, cache, r.awx, o.calls \o i.calls \o r.calls)
                  ELSE Out(r.ret, Nil, CachePut(cache, namespace, r.ret), r.awx,
                           o.calls \o i.calls \o r.calls)
                  : r \in CreateInventory(a, inventoryName, o.ret, F)}
             Lookup(o) ==
                 UNION { IF i.err # Nil
                         THEN {Out(0, i.err, cache, a, o.calls \o i.calls)}
                         ELSE IF i.ret = 0
                         THEN Create(o, i)
                         ELSE {Out(i.ret, Nil, CachePut(cache, namespace, i.ret), a,
                                   o.calls \o i.calls)}
                       : i \in GetInventoryID(a, inventoryName, F) }
         IN  UNION { IF o.err # Nil
                     THEN {Out(0, o.err, cache, a, o.calls)}
                     ELSE Lookup(o)
                   : o \in GetOrganizationID(a, organization, F) }

\* mutant: the labels are left out of the host variables
hostVarsNoLabels(vm) ==
    [vm_name |-> vm.Name, vm_namespace |-> vm.Namespace, labels |-> {}, ansible_host |-> vm.IP]

hostVars(vm) ==
    [vm_name |-> vm.Name, vm_namespace |-> vm.Namespace,
     labels |-> vm.Labels, ansible_host |-> vm.IP]

\* mutant: the error of the resolution is dropped and the host call goes ahead
handleVMAddedAnyway(cache, a, vm, F) ==
    UNION { {[ret |-> 0, err |-> r.err, cache |-> g.cache, awx |-> r.awx,
              calls |-> g.calls \o r.calls]
             : r \in CreateOrUpdateHost(g.awx, g.ret, vm.Name, hostVars(vm), F)}
          : g \in getOrCreateInventoryForNamespace(cache, a, vm.Namespace, F) }

handleVMAdded(cache, a, vm, F) ==
    UNION { IF g.err # Nil
            THEN {g}
            ELSE {Out(0, r.err, g.cache, r.awx, g.calls \o r.calls)
                  : r \in CreateOrUpdateHost(g.awx, g.ret, vm.Name, hostVars(vm), F)}
          : g \in getOrCreateInventoryForNamespace(cache, a, vm.Namespace, F) }

handleVMDeleted(cache, a, namespace, name, F) ==
    UNION { IF g.err # Nil
            THEN {g}
            ELSE {Out(0, r.err, g.cache, r.awx, g.calls \o r.calls)
                  : r \in DeleteHost(g.awx, g.ret, name, F)}
          : g \in getOrCreateInventoryForNamespace(cache, a, namespace, F) }

\* mutant: the address is never taken to be missing
NoIPNever(vm) == FALSE

\* vm.IP == "": the VM has no address yet
NoIP(vm) == vm.IP = ""

\* mutant: the switch has no default, an unknown type falls into the DELETED case
handleWatchEventAnyType(cache, a, event, F) ==
    LET obj == event.Object
        namespace == NestedString(obj, "metadata", "namespace")
        name == NestedString(obj, "metadata", "name")
        skip == {[ret |-> 0, err |-> "nil", cache |-> cache, awx |-> a, calls |-> <<>>]}
    IN  IF ~namespace.found THEN skip
        ELSE IF ~name.found THEN skip
        ELSE IF event.Type \in {"ADDED", "MODIFIED"}
        THEN IF NoIP(UnstructuredToVM(obj)) THEN skip
             ELSE handleVMAdded(cache, a, UnstructuredToVM(obj), F)
        ELSE handleVMDeleted(cache, a, namespace.val, name.val, F)

handleWatchEvent(cache, a, event, F) ==
    LET obj == event.Object
        namespace == NestedString(obj, "metadata", "namespace")
        name == NestedString(obj, "metadata", "name")
        skip == {Out(0, Nil, cache, a, <<>>)}
    IN  IF ~namespace.found THEN skip
        ELSE IF ~name.found THEN skip
        ELSE IF event.Type \in {"ADDED", "MODIFIED"}
        THEN IF NoIP(UnstructuredToVM(obj)) THEN skip
             ELSE handleVMAdded(cache, a, UnstructuredToVM(obj), F)
        ELSE IF event.Type = "DELETED"
        THEN handleVMDeleted(cache, a, namespace.val, name.val, F)
        ELSE skip

----------------------------------------------------------------------------
(* The remote before the controller starts *)

EmptyAWX(orgs) ==
    [organizations |-> orgs, inventories |-> {}, hosts |-> {}, groups |-> {},
     nextInv |-> 1, nextHost |-> 1, nextGroup |-> 1]

TheOrganization == {[id |-> 1, name |-> organization]}

\* an inventory and a host left by an earlier process lifetime
OldVars == Marshal([vm_name |-> "vm1", vm_namespace |-> "ns1", labels |-> {},
                    ansible_host |-> "10.0.0.4"])

UsedAWX(pfx) ==
    [organizations |-> TheOrganization,
     inventories |-> {[id |-> 1, name |-> InventoryName(pfx, "ns1")]},
     hosts |-> {[id |-> 1, inventory |-> 1, name |-> "vm1", variables |-> OldVars]},
     groups |-> {},
     nextInv |-> 2, nextHost |-> 2, nextGroup |-> 1]

InitialAWX(pfx) == {EmptyAWX({}), EmptyAWX(TheOrganization), UsedAWX(pfx)}

EmptyCache == [n \in {} |-> 0]

Tokens == {"", "s3cret"}

NotStarted == [ping |-> "none", orgID |-> 0]

\* the process starts with a prefix out of pfxs
Boot(pfxs) ==
    /\ prefix \in pfxs
    /\ awxToken \in Tokens
    /\ startup = NotStarted
    /\ pc = "main"
    /\ runErr = Nil
    /\ cancelled = FALSE
    /\ inventoryCache = EmptyCache
    /\ awx \in InitialAWX(prefix)
    /\ ch = <<>>
    /\ chOpen = FALSE
    /\ delivered = 0
    /\ reconnects = 0
    /\ createCalls = [n \in Namespaces |-> 0]
    /\ last = <<>>
    /\ prev = <<>>
    /\ reply = <<>>

Init == Boot({"k8s"}) /\ inst = <<>>

----------------------------------------------------------------------------
(* main: the configuration check, controller.New, ctrl.Start *)

\* mutant: an empty token is accepted
TokenMissingNever(token) == FALSE

\* if awxToken == "" { log.Fatal(...) }
TokenMissing(token) == token = ""

Main ==
    /\ pc = "main"
    /\ IF TokenMissing(awxToken)
       THEN pc' = "returned" /\ runErr' = "AWX_TOKEN environment variable is required"
       ELSE \E created \in BOOLEAN :
              IF created
              THEN pc' = "init" /\ runErr' = runErr
              ELSE pc' = "returned" /\ runErr' = "failed to create Kubernetes client"
    /\ UNCHANGED <<inst, reply, prefix, awxToken, startup, cancelled, inventoryCache, awx, ch, chOpen, delivered,
                   reconnects, createCalls, last, prev>>

----------------------------------------------------------------------------
(* Run: Initialize, then WatchVMs *)

\* Controller.Initialize, called by Run: WaitForAWX, then the organization lookup
Initialize ==
    /\ pc = "init"
    /\ \E ping \in {"available", "timeout"} :
         IF ping = "timeout"
         THEN /\ pc' = "returned" /\ runErr' = "failed to wait for AWX"
              /\ startup' = [startup EXCEPT !.ping = ping]
         ELSE \E o \in GetOrganizationID(awx, organization, Faults) :
                /\ startup' = [ping |-> ping, orgID |-> o.ret]
                /\ IF o.err # Nil
                   THEN pc' = "returned" /\ runErr' = o.err
                   ELSE pc' = "subscribing" /\ runErr' = runErr
    /\ UNCHANGED <<inst, reply, prefix, awxToken, cancelled, inventoryCache, awx, ch, chOpen, delivered, reconnects,
                   createCalls, last, prev>>

\* mutant: the watch request does not look at its context
WatchStartsAnyway(ctxDone) == BOOLEAN

\* k.client.Resource(gvr).Watch(ctx, ...): a cancelled context fails the request
WatchStarts(ctxDone) == IF ctxDone THEN {FALSE} ELSE BOOLEAN

Subscribe ==
    /\ pc = "subscribing"
    /\ \E started \in WatchStarts(cancelled) :
         IF started
         THEN pc' = "watching" /\ runErr' = runErr /\ chOpen' = TRUE
         ELSE pc' = "returned" /\ runErr' = "failed to start watch" /\ chOpen' = chOpen
    /\ ch' = <<>>
    /\ UNCHANGED <<inst, reply, prefix, awxToken, startup, cancelled, inventoryCache, awx, delivered, reconnects, createCalls,
                   last, prev>>

\* case <-ctx.Done(): return ctx.Err()
CtxErr == "context canceled"

SelectCtxDone ==
    /\ pc = "watching"
    /\ cancelled
    /\ pc' = "returned"
    /\ runErr' = CtxErr
    /\ chOpen' = FALSE
    /\ UNCHANGED <<inst, reply, prefix, awxToken, startup, cancelled, inventoryCache, awx, ch, delivered, reconnects, createCalls,
                   last, prev>>

\* mutant: the newest waiting event is taken first
ChanRecvLast(c) == [msg |-> c[Len(c)], rest |-> SubSeq(c, 1, Len(c) - 1)]

\* case event, ok := <-watcher.ResultChan(): the oldest waiting event
ChanRecv(c) == [msg |-> Head(c), rest |-> Tail(c)]

\* mutant: the loop goes on after a handler error
AfterHandlerContinue(err) == "watching"

\* if err := handler(event, obj); err != nil { return err }
AfterHandler(err) == IF err # Nil THEN "returned" ELSE "watching"

Creates(calls) == Cardinality({i \in DOMAIN calls : calls[i].op = "CreateInventory"})

\* AWX holds an inventory of the name computed for the event's namespace
InventoryExists(a, ev) ==
    LET ns == NestedString(ev.Object, "metadata", "namespace")
    IN  ns.found /\ \E i \in a.inventories : i.name = InventoryName(prefix, ns.val)

\* proper: the outcome is the one a properly answering AWX produces;
\* existed: the namespace's inventory was in AWX when the event was received
Received(m, dispatched, calls, err, proper) ==
    <<[seq |-> m.seq, ev |-> m.ev, dispatched |-> dispatched, cacheBefore |-> inventoryCache,
       existed |-> InventoryExists(awx, m.ev),
       calls |-> calls, err |-> err, proper |-> proper, epoch |-> reconnects,
       clean |-> TRUE]>>

Summary(l) ==
    IF l # <<>> /\ l[1].clean
    THEN <<[ev |-> l[1].ev, err |-> l[1].err, epoch |-> l[1].epoch]>>
    ELSE <<>>

SelectEvent ==
    /\ pc = "watching"
    /\ ch # <<>>
    /\ awx.nextInv <= MaxId
    /\ awx.nextHost <= MaxId
    /\ LET m == ChanRecv(ch).msg
           ns == NestedString(m.ev.Object, "metadata", "namespace")
       IN  /\ ch' = ChanRecv(ch).rest
           /\ prev' = Summary(last)
           /\ IF ~m.ev.isObject
              THEN \* obj, ok := event.Object.(*unstructured.Unstructured); !ok: continue
                   /\ last' = Received(m, FALSE, <<>>, Nil, TRUE)
                   /\ UNCHANGED <<pc, runErr, chOpen, inventoryCache, awx, createCalls>>
              ELSE \E r \in handleWatchEvent(inventoryCache, awx, m.ev, Faults) :
                   /\ last' = Received(m, TRUE, r.calls, r.err,
                                     r \in handleWatchEvent(inventoryCache, awx, m.ev, NoFaults))
                   /\ inventoryCache' = r.cache
                   /\ awx' = r.awx
                   /\ createCalls' =
                        IF ns.found /\ ns.val \in Namespaces
                        THEN [createCalls EXCEPT ![ns.val] = @ + Creates(r.calls)]
                        ELSE createCalls
                   /\ pc' = AfterHandler(r.err)
                   /\ runErr' = r.err
                   /\ chOpen' = (chOpen /\ r.err = Nil)
    /\ UNCHANGED <<inst, reply, prefix, awxToken, startup, cancelled, delivered, reconnects>>

\* mutant: a closed channel ends the watch
AfterClosedReturn == "returned"

\* event, ok := <-watcher.ResultChan() with ok false: time.Sleep(5 * time.Second)
AfterClosed == "sleeping"

SelectClosed ==
    /\ pc = "watching"
    /\ ch = <<>>
    /\ ~chOpen
    /\ pc' = AfterClosed
    /\ runErr' = IF AfterClosed = "returned" THEN "watch closed" ELSE runErr
    /\ UNCHANGED <<inst, reply, prefix, awxToken, startup, cancelled, inventoryCache, awx, ch, chOpen, delivered, reconnects,
                   createCalls, last, prev>>

\* the sleep is over: return k.WatchVMs(ctx, handler)
Rewatch ==
    /\ pc = "sleeping"
    /\ pc' = "subscribing"
    /\ reconnects' = reconnects + 1
    /\ UNCHANGED <<inst, reply, prefix, awxToken, startup, runErr, cancelled, inventoryCache, awx, ch, chOpen, delivered,
                   createCalls, last, prev>>

----------------------------------------------------------------------------
(* The environment: the watcher, the signal handler, other users of AWX *)

Deliver ==
    /\ pc = "watching"
    /\ chOpen
    /\ Len(ch) < MaxChan
    /\ delivered < MaxDelivered
    /\ \E e \in Events : ch' = Append(ch, [seq |-> delivered + 1, ev |-> e])
    /\ delivered' = delivered + 1
    /\ UNCHANGED <<inst, reply, prefix, awxToken, startup, pc, runErr, cancelled, inventoryCache, awx, chOpen, reconnects,
                   createCalls, last, prev>>

CloseChan ==
    /\ pc = "watching"
    /\ chOpen
    /\ reconnects < MaxReconnects
    /\ chOpen' = FALSE
    /\ UNCHANGED <<inst, reply, prefix, awxToken, startup, pc, runErr, cancelled, inventoryCache, awx, ch, delivered, reconnects,
                   createCalls, last, prev>>

\* Start: the goroutine that waits for SIGTERM/SIGINT and calls cancel()
Cancel ==
    /\ pc \notin {"main", "returned"}
    /\ ~cancelled
    /\ cancelled' = TRUE
    /\ UNCHANGED <<inst, reply, prefix, awxToken, startup, pc, runErr, inventoryCache, awx, ch, chOpen, delivered, reconnects,
                   createCalls, last, prev>>

\* someone deletes an inventory, and with it its hosts, in AWX
ExternalDelete ==
    /\ pc # "returned"
    /\ \E i \in awx.inventories :
         awx' = [awx EXCEPT !.inventories = @ \ {i},
                            !.hosts = {h \in @ : h.inventory # i.id}]
    /\ last' = IF last = <<>> THEN last ELSE <<[last[1] EXCEPT !.clean = FALSE]>>
    /\ prev' = <<>>
    /\ UNCHANGED <<inst, reply, prefix, awxToken, startup, pc, runErr, cancelled, inventoryCache, ch, chOpen, delivered,
                   reconnects, createCalls>>

Next ==
    \/ Main
    \/ Initialize
    \/ Subscribe
    \/ SelectCtxDone
    \/ SelectEvent
    \/ SelectClosed
    \/ Rewatch
    \/ Deliver
    \/ CloseChan
    \/ Cancel
    \/ ExternalDelete

Spec == Init /\ [][Next]_vars

\* the process keeps running: the reconnect delay ends and the watch request
\* is answered
SpecLive == Init /\ [][Next]_vars /\ WF_vars(Rewatch) /\ WF_vars(Subscribe)

\* the engine under every configured prefix, with a watch that stays open
InitNaming == Boot(Prefixes) /\ inst = <<>>

NextNaming ==
    \/ Main
    \/ Initialize
    \/ Subscribe
    \/ SelectEvent
    \/ Deliver

SpecNaming == InitNaming /\ [][NextNaming]_vars

----------------------------------------------------------------------------
(* The engine with a watcher that also delivers events the handler has no  *)
(* case for, and a watch that stays open                                   *)

\* events of an unknown type, without metadata.name, without
\* metadata.namespace, or with a payload that is no resource object
OtherEvents ==
    { Event("BOOKMARK", TRUE, Obj("ns1", "vm1", [ipAddress |-> "10.0.0.5"])),
      Event("ADDED", TRUE, [metadata |-> [namespace |-> "ns1"],
                            status |-> [ipAddress |-> "10.0.0.5"]]),
      Event("DELETED", TRUE, [metadata |-> [name |-> "vm1"],
                              status |-> [ipAddress |-> "10.0.0.5"]]),
      Event("MODIFIED", TRUE, [status |-> [ipAddress |-> "10.0.0.5"]]),
      Event("DELETED", FALSE, [status |-> "Failure"]) }

DeliverOther ==
    /\ pc = "watching"
    /\ chOpen
    /\ Len(ch) < MaxChan
    /\ delivered < MaxDelivered
    /\ \E e \in OtherEvents : ch' = Append(ch, [seq |-> delivered + 1, ev |-> e])
    /\ delivered' = delivered + 1
    /\ UNCHANGED <<inst, reply, prefix, awxToken, startup, pc, runErr, cancelled,
                   inventoryCache, awx, chOpen, reconnects, createCalls, last, prev>>

NextIgnored ==
    \/ Main
    \/ Initialize
    \/ Subscribe
    \/ SelectEvent
    \/ Deliver
    \/ DeliverOther

SpecIgnored == Init /\ [][NextIgnored]_vars

----------------------------------------------------------------------------
(* Two engine instances, each with its own cache, resolve a namespace side *)
(* by side against one AWX: getOrCreateInventoryForNamespace, one client   *)
(* call per step (internal/controller/controller.go)                       *)

Instances == {1, 2}

Resolving(namespace) ==
    [pc |-> "start", namespace |-> namespace, cache |-> EmptyCache, orgID |-> 0,
     ret |-> 0, err |-> Nil, calls |-> <<>>]

InitRace ==
    /\ Boot({"k8s"})
    /\ inst \in [Instances -> {Resolving(n) : n \in Namespaces}]

\* return invID, nil / return 0, err
Returned(x, ret, err, calls) ==
    [x EXCEPT !.pc = "done", !.ret = ret, !.err = err, !.calls = @ \o calls]

\* the cache check, then c.awxClient.GetOrganizationID(c.organization)
ResolveOrganization(i) ==
    /\ inst[i].pc = "start"
    /\ IF CacheHit(inst[i].cache, inst[i].namespace)
       THEN inst' = [inst EXCEPT ![i] = Returned(@, @.cache[@.namespace], Nil, <<>>)]
       ELSE \E o \in GetOrganizationID(awx, organization, NoFaults) :
              inst' = [inst EXCEPT ![i] =
                         IF o.err # Nil
                         THEN Returned(@, 0, o.err, o.calls)
                         ELSE [@ EXCEPT !.pc = "lookup", !.orgID = o.ret,
                                        !.calls = @ \o o.calls]]
    /\ UNCHANGED <<engine, awx, reply>>

\* c.awxClient.GetInventoryID(inventoryName)
ResolveLookup(i) ==
    /\ inst[i].pc = "lookup"
    /\ \E r \in GetInventoryID(awx, InventoryName(prefix, inst[i].namespace), NoFaults) :
         inst' = [inst EXCEPT ![i] =
                    IF r.err # Nil THEN Returned(@, 0, r.err, r.calls)
                    ELSE IF r.ret = 0
                    THEN [@ EXCEPT !.pc = "create", !.calls = @ \o r.calls]
                    ELSE Returned([@ EXCEPT !.cache = CachePut(@, inst[i].namespace, r.ret)],
                                  r.ret, Nil, r.calls)]
    /\ UNCHANGED <<engine, awx, reply>>

\* c.awxClient.CreateInventory(inventoryName, orgID)
ResolveCreate(i) ==
    /\ inst[i].pc = "create"
    /\ \E r \in CreateInventory(awx, InventoryName(prefix, inst[i].namespace),
                                 inst[i].orgID, NoFaults) :
         /\ awx' = r.awx
         /\ inst' = [inst EXCEPT ![i] =
                       IF r.err # Nil THEN Returned(@, 0, r.err, r.calls)
                       ELSE Returned([@ EXCEPT !.cache = CachePut(@, inst[i].namespace, r.ret)],
                                     r.ret, Nil, r.calls)]
    /\ UNCHANGED <<engine, reply>>

NextRace ==
    \E i \in Instances :
      \/ ResolveOrganization(i)
      \/ ResolveLookup(i)
      \/ ResolveCreate(i)

SpecRace == InitRace /\ [][NextRace]_vars

----------------------------------------------------------------------------
(* The client called directly, next to another actor that creates the same *)
(* entities (internal/awx/client.go)                                       *)

GroupNames == {"web", "db"}

\* what the remote may do to a call: another actor gets in first
ClientFaults == {"raced"}

Reply(op, name, r) ==
    <<[op |-> op, name |-> name, ret |-> r.ret, err |-> r.err, calls |-> r.calls]>>

CallCreateInventory ==
    /\ awx.nextInv <= MaxId
    /\ \E n \in Namespaces, o \in awx.organizations :
         \E r \in CreateInventory(awx, InventoryName(prefix, n), o.id, ClientFaults) :
           /\ awx' = r.awx
           /\ reply' = Reply("CreateInventory", InventoryName(prefix, n), r)
    /\ UNCHANGED <<engine, inst>>

CallGetOrCreateGroup ==
    /\ awx.nextGroup <= MaxId
    /\ \E i \in awx.inventories, n \in GroupNames :
         \E r \in GetOrCreateGroup(awx, i.id, n, ClientFaults) :
           /\ awx' = r.awx
           /\ reply' = Reply("GetOrCreateGroup", n, r)
    /\ UNCHANGED <<engine, inst>>

NextClient ==
    \/ CallCreateInventory
    \/ CallGetOrCreateGroup

SpecClient == Init /\ [][NextClient]_vars

----------------------------------------------------------------------------
(* Properties *)

HasLast == last # <<>>
L == last[1]
P == prev[1]

EvNamespace(ev) == ev.Object.metadata.namespace
EvName(ev) == ev.Object.metadata.name

\* the event names a VM: metadata.namespace and metadata.name are present
NamesVM(ev) ==
    /\ ev.isObject
    /\ "metadata" \in DOMAIN ev.Object
    /\ {"namespace", "name"} \subseteq DOMAIN ev.Object.metadata

\* the event's object carries a non-empty status.ipAddress
HasAddress(ev) ==
    /\ NamesVM(ev)
    /\ "status" \in DOMAIN ev.Object
    /\ "ipAddress" \in DOMAIN ev.Object.status
    /\ ev.Object.status.ipAddress # ""

Ops(calls) == {calls[i].op : i \in DOMAIN calls}

InventoryOps == {"GetOrganizationID", "GetInventoryID", "CreateInventory"}

\* C1: a handler failure for one notification does not make Run return:
\* Run never ends with the error of the notification processed last.
C1_FailureKeepsRunning ==
    (HasLast /\ L.err # Nil) => ~(pc = "returned" /\ runErr = L.err)

\* C2: a DELETED notification for a namespace without a cache entry makes no
\* gateway call, adds no cache entry and returns no error.
C2_RemovedUncachedIsNoOp ==
    (HasLast /\ L.dispatched /\ NamesVM(L.ev) /\ L.ev.Type = "DELETED"
       /\ EvNamespace(L.ev) \notin DOMAIN L.cacheBefore)
    => (L.calls = <<>> /\ L.err = Nil /\ inventoryCache = L.cacheBefore)

\* C3: an ADDED or MODIFIED notification whose object has an empty or absent
\* address makes no gateway call, leaves the cache unchanged and succeeds.
C3_AddressGating ==
    (HasLast /\ L.dispatched /\ L.ev.Type \in {"ADDED", "MODIFIED"} /\ ~HasAddress(L.ev))
    => (L.calls = <<>> /\ L.err = Nil /\ inventoryCache = L.cacheBefore)

C3_Witness ==
    /\ HasLast /\ L.dispatched /\ NamesVM(L.ev)
    /\ L.ev.Type \in {"ADDED", "MODIFIED"} /\ ~HasAddress(L.ev)
    /\ EvNamespace(L.ev) \in DOMAIN L.cacheBefore
    /\ awx.hosts # {}
    /\ L.calls = <<>>

\* C4: CreateInventory is called at most once per namespace over the whole run.
C4_CreateOncePerNamespace ==
    \A n \in Namespaces : createCalls[n] <= 1

C4_Witness ==
    /\ HasLast /\ L.seq >= 2 /\ L.dispatched /\ HasAddress(L.ev)
    /\ createCalls[EvNamespace(L.ev)] = 1
    /\ EvNamespace(L.ev) \in DOMAIN L.cacheBefore
    /\ L.calls # <<>>

\* C5: with a cache entry for the namespace, resolution makes no organization or
\* inventory call and the host calls use the cached id, whatever the remote holds.
C5_CacheHitNoRemoteCall ==
    (HasLast /\ L.dispatched /\ NamesVM(L.ev)
       /\ (L.ev.Type = "DELETED" \/ HasAddress(L.ev))
       /\ L.ev.Type \in {"ADDED", "MODIFIED", "DELETED"}
       /\ EvNamespace(L.ev) \in DOMAIN L.cacheBefore)
    => /\ Ops(L.calls) \cap InventoryOps = {}
       /\ L.calls # <<>>
       /\ L.calls[1] = Call("GetHostID", L.cacheBefore[EvNamespace(L.ev)], EvName(L.ev))
       /\ inventoryCache = L.cacheBefore

\* the cached inventory had been deleted remotely when the event was handled
C5_Witness ==
    /\ HasLast /\ L.dispatched /\ HasAddress(L.ev) /\ L.clean
    /\ EvNamespace(L.ev) \in DOMAIN L.cacheBefore
    /\ ~\E i \in awx.inventories : i.id = L.cacheBefore[EvNamespace(L.ev)]
    /\ L.calls # <<>>

\* the variables a host must carry for the VM of an event
ExpectedVars(ev) ==
    << <<"ansible_host", ev.Object.status.ipAddress>>,
       <<"labels", IF "labels" \in DOMAIN ev.Object.metadata
                   THEN ev.Object.metadata.labels ELSE {}>>,
       <<"vm_name", EvName(ev)>>,
       <<"vm_namespace", EvNamespace(ev)>> >>

AddedWithAddress == {e \in Events : e.Type = "ADDED" /\ HasAddress(e)}

HostsOf(a, cache, ev) ==
    {h \in a.hosts : h.inventory = cache[EvNamespace(ev)] /\ h.name = EvName(ev)}

\* C6: when the engine has applied an ADDED notification successfully and
\* then receives the same notification again, with no outside change of AWX in
\* between, the namespace's inventory holds exactly one host of that name, with
\* the variables of the notification, whatever AWX answered the second time;
\* and when AWX answered properly the second application succeeded with a
\* lookup and a PATCH of the existing host, without a host creation.
C6_IdempotentUpsert ==
    (HasLast /\ prev # <<>> /\ L.clean /\ P.ev = L.ev /\ L.ev \in AddedWithAddress
       /\ P.err = Nil)
    => /\ Cardinality(HostsOf(awx, inventoryCache, L.ev)) = 1
       /\ \A h \in HostsOf(awx, inventoryCache, L.ev) : h.variables = ExpectedVars(L.ev)
       /\ L.proper => (L.err = Nil /\ Ops(L.calls) = {"GetHostID", "PATCH host"})

\* the engine has applied the same ADDED notification twice in a row
C6_Witness ==
    /\ HasLast /\ prev # <<>> /\ L.clean
    /\ P.ev = L.ev /\ L.ev \in AddedWithAddress
    /\ P.err = Nil /\ L.err = Nil
    /\ "PATCH host" \in Ops(L.calls)
    /\ Cardinality(HostsOf(awx, inventoryCache, L.ev)) = 1

\* a snapshot: ADDED notifications, one per VM
AddedEvents == {x \in Events : x.Type = "ADDED" /\ NamesVM(x)}

Snapshots ==
    {<<e>> : e \in AddedEvents}
    \cup UNION { {<<e1, e2>> : e2 \in {x \in AddedEvents : EvNamespace(x) # EvNamespace(e1)}}
               : e1 \in AddedEvents }

\* the outcomes of feeding a sequence of notifications to the handler; the
\* watch loop stops at the first handler error
RECURSIVE Feed(_, _, _, _)
Feed(cache, a, evs, F) ==
    IF evs = <<>>
    THEN {[cache |-> cache, awx |-> a, err |-> Nil]}
    ELSE UNION { IF AfterHandler(r.err) = "returned"
                 THEN {[cache |-> r.cache, awx |-> r.awx, err |-> r.err]}
                 ELSE Feed(r.cache, r.awx, Tail(evs), F)
               : r \in handleWatchEvent(cache, a, Head(evs), F) }

\* C7: whenever the watch is about to be restarted (the moment a snapshot is
\* replayed), for every snapshot: feeding it a second time after it was fed
\* successfully leaves the remote state (inventories, and hosts with their
\* variables) as it was after the first feed, whatever AWX answers; and the
\* replay is processed without error when AWX answers properly.
C7_ReplayConvergence ==
    pc = "sleeping" =>
      \A snap \in Snapshots :
        \A once \in Feed(inventoryCache, awx, snap, Faults) :
          once.err = Nil =>
            /\ \A twice \in Feed(once.cache, once.awx, snap, Faults) :
                 /\ twice.awx.inventories = once.awx.inventories
                 /\ twice.awx.hosts = once.awx.hosts
            /\ \A twice \in Feed(once.cache, once.awx, snap, NoFaults) :
                 twice.err = Nil

\* the watch is about to be restarted after the engine applied an ADDED
\* notification, and replaying a two-VM snapshot that holds it is possible
C7_Witness ==
    /\ pc = "sleeping"
    /\ HasLast /\ L.clean /\ L.ev \in AddedWithAddress /\ L.err = Nil
    /\ \E snap \in Snapshots :
         /\ Len(snap) = 2
         /\ snap[1] = L.ev
         /\ \E once \in Feed(inventoryCache, awx, snap, NoFaults) :
              once.err = Nil /\ Cardinality(once.awx.hosts) = 2

C9_CancelReturnsCleanly ==
    [][ (pc = "watching" /\ cancelled /\ pc' = "returned" /\ last' = last)
        => runErr' = Nil ]_vars

\* C10: notifications are received one at a time in delivery order: the one
\* processed last is the k-th delivered, where k is the number of notifications
\* taken from the channel so far, and each step processes exactly the next one.
C10_DeliveryOrder ==
    HasLast => L.seq = delivered - Len(ch)

C10_Witness ==
    /\ HasLast /\ prev # <<>>
    /\ L.seq = 2 /\ L.calls # <<>>
    /\ HasAddress(P.ev) /\ HasAddress(L.ev)
    /\ EvNamespace(P.ev) = EvNamespace(L.ev)
    /\ P.ev # L.ev

\* the configured organization, as AWX holds it
ConfiguredOrgs(a) == {o \in a.organizations : o.name = organization}

\* the step opens a subscription, or leaves an inventory or a host in AWX that
\* was not there (or not with these variables) before
OpensOrCreates ==
    \/ chOpen' /\ ~chOpen
    \/ pc' \in {"subscribing", "watching", "sleeping"}
    \/ awx'.inventories \ awx.inventories # {}
    \/ awx'.hosts \ awx.hosts # {}

\* C11: no partial startup. A step opens a subscription or creates an inventory
\* or a host only when the token is non-empty, the health ping was answered and
\* the configured organization was found by name; no step creates an
\* organization; and while AWX holds no organization of the configured name the
\* engine never subscribes.
C11_NoPartialStartup ==
    [][ /\ OpensOrCreates
           => /\ awxToken # ""
              /\ startup'.ping = "available"
              /\ startup'.orgID \in {o.id : o \in ConfiguredOrgs(awx)}
        /\ awx'.organizations = awx.organizations
        /\ ConfiguredOrgs(awx) = {}
           => (pc' \notin {"subscribing", "watching", "sleeping"} /\ ~chOpen'
               /\ awx'.inventories = awx.inventories /\ awx'.hosts = awx.hosts)
      ]_vars

\* the engine, started properly, has subscribed and created an inventory and a host
C11_Witness ==
    /\ awxToken # "" /\ startup.ping = "available" /\ startup.orgID = 1
    /\ pc = "watching" /\ chOpen
    /\ HasLast /\ "CreateInventory" \in Ops(L.calls) /\ "POST host" \in Ops(L.calls)
    /\ awx.inventories # {} /\ awx.hosts # {}

\* the event is an ADDED or MODIFIED that carries an address
Upsert(ev) == ev.Type \in {"ADDED", "MODIFIED"} /\ HasAddress(ev)

\* C12: with AWX answering properly, (a) an address-bearing ADDED/MODIFIED for a
\* namespace that is not cached and whose inventory AWX does not hold makes
\* exactly the calls find organization (configured name), find inventory
\* (computed name), create inventory (computed name, organization id), find host
\* (new inventory id, VM name), create host (new inventory id, VM name), and the
\* host created carries vm_name, vm_namespace, labels and ansible_host of the
\* record; (b) a DELETED for the VM whose ADDED/MODIFIED was applied just before
\* makes exactly the calls find host, delete host by the id found, and the host
\* is gone.
C12_CallSequence ==
    /\ (HasLast /\ L.dispatched /\ L.proper /\ Upsert(L.ev)
          /\ EvNamespace(L.ev) \notin DOMAIN L.cacheBefore /\ ~L.existed)
       => /\ L.err = Nil
          /\ EvNamespace(L.ev) \in DOMAIN inventoryCache
          /\ LET inv == inventoryCache[EvNamespace(L.ev)]
                 name == InventoryName(prefix, EvNamespace(L.ev))
             IN  /\ L.calls = << Call("GetOrganizationID", 0, organization),
                                 Call("GetInventoryID", 0, name),
                                 Call("CreateInventory", startup.orgID, name),
                                 Call("GetHostID", inv, EvName(L.ev)),
                                 Call("POST host", inv, EvName(L.ev)) >>
                 /\ inv > 0
                 /\ L.clean =>
                      /\ [id |-> inv, name |-> name] \in awx.inventories
                      /\ \E h \in awx.hosts :
                           /\ h.inventory = inv /\ h.name = EvName(L.ev)
                           /\ h.variables = ExpectedVars(L.ev)
    /\ (HasLast /\ prev # <<>> /\ L.clean /\ L.dispatched /\ L.proper
          /\ L.ev.Type = "DELETED" /\ NamesVM(L.ev)
          /\ Upsert(P.ev) /\ P.err = Nil
          /\ EvNamespace(P.ev) = EvNamespace(L.ev) /\ EvName(P.ev) = EvName(L.ev))
       => /\ L.err = Nil
          /\ EvNamespace(L.ev) \in DOMAIN L.cacheBefore
          /\ LET inv == L.cacheBefore[EvNamespace(L.ev)]
             IN  /\ Len(L.calls) = 2
                 /\ L.calls[1] = Call("GetHostID", inv, EvName(L.ev))
                 /\ L.calls[2].op = "DELETE host" /\ L.calls[2].id > 0
                 /\ ~\E h \in awx.hosts :
                       h.id = L.calls[2].id \/ (h.inventory = inv /\ h.name = EvName(L.ev))

\* the first ADDED of a namespace created inventory and host, and the DELETED
\* that followed removed the host
C12_Witness ==
    /\ HasLast /\ prev # <<>> /\ L.clean /\ L.proper /\ L.seq = 2
    /\ L.ev.Type = "DELETED" /\ Upsert(P.ev) /\ P.err = Nil
    /\ EvNamespace(P.ev) = EvNamespace(L.ev) /\ EvName(P.ev) = EvName(L.ev)
    /\ createCalls[EvNamespace(L.ev)] = 1
    /\ Ops(L.calls) = {"GetHostID", "DELETE host"}
    /\ awx.inventories # {} /\ awx.hosts = {}

\* the notification received last missed the cache and reached the inventory lookup
LookedUp ==
    /\ HasLast /\ L.dispatched /\ NamesVM(L.ev)
    /\ EvNamespace(L.ev) \notin DOMAIN L.cacheBefore
    /\ Len(L.calls) >= 2

\* the names the inventory lookup and the inventory creation were called with
NamesUsed == {L.calls[i].name : i \in {j \in DOMAIN L.calls : L.calls[j].op \in {"GetInventoryID", "CreateInventory"}}}

Existing ==
    IF reply[1].op = "CreateInventory"
    THEN {i.id : i \in {x \in awx.inventories : x.name = reply[1].name}}
    ELSE {x.id : x \in {y \in awx.groups : y.name = reply[1].name
                                          /\ y.inventory = reply[1].calls[1].id}}

\* C14: when a create request for an inventory or a group was sent and AWX
\* holds an entity of that name afterwards (created by the request, or by
\* another actor so that the request met a conflict), the call returns no
\* error and the id of that entity.
C14_ConflictIsSuccess ==
    (reply # <<>> /\ Ops(reply[1].calls) \cap {"CreateInventory", "POST group"} # {}
       /\ Existing # {})
    => (reply[1].err = Nil /\ reply[1].ret \in Existing)

HostOps == {"GetHostID", "PATCH host", "POST host", "DELETE host"}

\* C15: the cache only grows. No step removes an entry or changes its id; a
\* step adds at most one entry, and only while handling a notification of that
\* namespace that missed the cache, looked the inventory up and had the
\* resolution return without error (the handler went on to the host calls).
C15_CacheOnlyGrows ==
    [][ /\ \A n \in DOMAIN inventoryCache :
             n \in DOMAIN inventoryCache' /\ inventoryCache'[n] = inventoryCache[n]
        /\ Cardinality(DOMAIN inventoryCache' \ DOMAIN inventoryCache) <= 1
        /\ \A n \in DOMAIN inventoryCache' \ DOMAIN inventoryCache :
             /\ pc = "watching" /\ ch # <<>> /\ ch' = Tail(ch)
             /\ last' # <<>> /\ last'[1].dispatched /\ last'[1].ev = Head(ch).ev
             /\ NamesVM(last'[1].ev) /\ EvNamespace(last'[1].ev) = n
             /\ last'[1].cacheBefore = inventoryCache
             /\ "GetInventoryID" \in Ops(last'[1].calls)
             /\ "GetHostID" \in Ops(last'[1].calls)
      ]_vars

\* both namespaces are cached, the first entry having outlived a reconnect, a
\* cancellation and the failure of the notification that added the second
C15_Witness ==
    /\ DOMAIN inventoryCache = Namespaces
    /\ HasLast /\ L.epoch = 1 /\ L.err # Nil /\ Cardinality(DOMAIN L.cacheBefore) = 1
    /\ reconnects = 1 /\ cancelled /\ pc = "returned"

\* the hosts a step adds, changes or removes
Touched == (awx.hosts \ awx'.hosts) \cup (awx'.hosts \ awx.hosts)

\* C16: handling a notification, every host call names the inventory id
\* resolved for the notification's own namespace (the id the cache holds for
\* it) and the VM's name, a PATCH or DELETE goes to a host of that inventory and
\* name, and every host the step adds, changes or removes is a host of that
\* name in that inventory; hosts of other inventories are left as they were.
C16_OwnInventoryOnly ==
    [][ (pc = "watching" /\ ch # <<>> /\ ch' = Tail(ch) /\ last'[1].calls # <<>>)
        => LET ev == last'[1].ev
               calls == last'[1].calls
               hostCalls == {i \in DOMAIN calls : calls[i].op \in HostOps}
           IN  hostCalls # {} =>
                 /\ EvNamespace(ev) \in DOMAIN inventoryCache'
                 /\ LET inv == inventoryCache'[EvNamespace(ev)]
                    IN  /\ \A i \in hostCalls :
                             /\ calls[i].name = EvName(ev)
                             /\ calls[i].op \in {"GetHostID", "POST host"} => calls[i].id = inv
                             /\ calls[i].op \in {"PATCH host", "DELETE host"} =>
                                  \E h \in awx.hosts : /\ h.id = calls[i].id
                                                       /\ h.inventory = inv
                                                       /\ h.name = EvName(ev)
                        /\ \A h \in Touched : h.inventory = inv /\ h.name = EvName(ev)
                        /\ \A h \in awx.hosts : h.inventory # inv => h \in awx'.hosts
      ]_vars

\* a VM of namespace ns2 was added while namespace ns1 has a host of the same
\* name in its own inventory
C16_Witness ==
    /\ HasLast /\ L.clean /\ L.err = Nil /\ HasAddress(L.ev) /\ EvNamespace(L.ev) = "ns2"
    /\ "ns1" \in DOMAIN inventoryCache
    /\ inventoryCache["ns1"] # inventoryCache["ns2"]
    /\ \E h1, h2 \in awx.hosts :
         /\ h1.name = h2.name
         /\ h1.inventory = inventoryCache["ns1"]
         /\ h2.inventory = inventoryCache["ns2"]

\* C17: once cancellation has been raised and the loop is at its select, no
\* waiting notification is taken from the channel and dispatched to the handler.
C17_NoDispatchAfterCancel ==
    [][ (cancelled /\ pc = "watching" /\ ch # <<>> /\ ch' = Tail(ch))
        => ~last'[1].dispatched ]_vars

\* C18: once cancellation has been signalled no step opens a subscription, and
\* when the signal has arrived by the time the engine waits out the reconnect
\* delay, Run eventually returns.
C18_NoSubscriptionAfterCancel ==
    /\ [][ cancelled => ~(chOpen' /\ ~chOpen) /\ ~(pc # "watching" /\ pc' = "watching") ]_vars
    /\ ((pc = "sleeping" /\ cancelled) ~> (pc = "returned"))

\* Run has returned from the watch request it made after a reconnect delay
\* during which the signal arrived
C18_Witness ==
    /\ pc = "returned" /\ cancelled /\ reconnects = 1
    /\ runErr = "failed to start watch"
    /\ ~chOpen

InventoriesNamed(a, namespace) == {i \in a.inventories : i.name = InventoryName(prefix, namespace)}

\* C19: when two instances, each starting from an empty cache, have both
\* finished resolving the same namespace against an AWX that holds the
\* configured organization and answers a duplicate name with 400, neither
\* returned an error, both cache the same id, and AWX holds exactly one
\* inventory of the namespace's name, the one with that id; at no moment of any
\* interleaving does AWX hold two inventories of one name.
C19_RacingInstancesAgree ==
    /\ \A n \in Namespaces : Cardinality(InventoriesNamed(awx, n)) <= 1
    /\ (/\ ConfiguredOrgs(awx) # {}
        /\ \A i \in Instances : inst[i].pc = "done"
        /\ inst[1].namespace = inst[2].namespace)
       => /\ \A i \in Instances :
               /\ inst[i].err = Nil
               /\ DOMAIN inst[i].cache = {inst[i].namespace}
               /\ inst[i].cache[inst[i].namespace] = inst[i].ret
          /\ inst[1].ret = inst[2].ret
          /\ {x.id : x \in InventoriesNamed(awx, inst[1].namespace)} = {inst[1].ret}

\* both instances missed in the lookup, both sent the creation, and both are done
C19_Witness ==
    /\ \A i \in Instances :
         /\ inst[i].pc = "done" /\ inst[i].namespace = "ns2"
         /\ "CreateInventory" \in Ops(inst[i].calls)
         /\ inst[i].err = Nil
    /\ Cardinality(InventoriesNamed(awx, "ns2")) = 1

\* the outcomes of a resolution that fails
Failing(cache, a, namespace) ==
    {g \in getOrCreateInventoryForNamespace(cache, a, namespace, Faults) : g.err # Nil}

\* C20: a notification that misses the cache starts the resolution; when the
\* resolution fails (no host call follows the organization and inventory
\* calls) the handler returns an error, the cache is as it was, without an
\* entry for the namespace, and the watch loop has received that error; a host
\* call is issued only with an entry for the namespace in the cache. Whenever
\* the watch is about to be restarted, every failing outcome of a resolution leaves the cache
\* unchanged, makes no host call, and is what the handlers of ADDED and DELETED
\* return.
C20_FailedResolution ==
    /\ (HasLast /\ L.dispatched /\ NamesVM(L.ev) /\ (L.ev.Type = "DELETED" \/ Upsert(L.ev))
          /\ EvNamespace(L.ev) \notin DOMAIN L.cacheBefore)
       => /\ L.calls # <<>> /\ L.calls[1].op = "GetOrganizationID"
          /\ IF Ops(L.calls) \cap HostOps = {}
             THEN /\ L.err # Nil
                  /\ inventoryCache = L.cacheBefore
                  /\ pc = "returned" /\ runErr = L.err
             ELSE EvNamespace(L.ev) \in DOMAIN inventoryCache
    /\ pc = "sleeping" =>
         \A n \in Namespaces \ DOMAIN inventoryCache :
           LET failing == Failing(inventoryCache, awx, n)
               deleted == handleVMDeleted(inventoryCache, awx, n, "vm1", Faults)
               added == handleVMAdded(inventoryCache, awx,
                                      [Name |-> "vm1", Namespace |-> n, IP |-> "10.0.0.5",
                                       Labels |-> {}], Faults)
           IN  /\ failing \subseteq deleted
               /\ failing \subseteq added
               /\ \A g \in failing :
                    g.cache = inventoryCache /\ Ops(g.calls) \subseteq InventoryOps

\* with one namespace cached, the creation of the inventory of the other failed
C20_Witness ==
    /\ HasLast /\ L.dispatched /\ Upsert(L.ev)
    /\ L.cacheBefore # EmptyCache /\ EvNamespace(L.ev) \notin DOMAIN L.cacheBefore
    /\ L.calls[Len(L.calls)].op = "CreateInventory"
    /\ L.err # Nil /\ inventoryCache = L.cacheBefore
    /\ pc = "returned" /\ runErr = L.err

\* C21: every id the cache holds is a positive inventory id, never the 'not
\* found' value 0, and no host lookup or host creation is sent with inventory
\* id 0.
C21_NoSentinelCached ==
    /\ \A n \in DOMAIN inventoryCache : inventoryCache[n] > 0
    /\ HasLast =>
         \A i \in DOMAIN L.calls :
           L.calls[i].op \in {"GetHostID", "POST host"} => L.calls[i].id > 0

\* C22: when the handling of a DELETED notification returned no error, the
\* inventory of the namespace holds no host of the VM's name.
C22_DeleteSuccessMeansAbsent ==
    (HasLast /\ L.dispatched /\ NamesVM(L.ev) /\ L.ev.Type = "DELETED" /\ L.err = Nil
       /\ EvNamespace(L.ev) \in DOMAIN inventoryCache)
    => HostsOf(awx, inventoryCache, L.ev) = {}

\* C23: handling a notification, a host creation is sent only for a name that
\* the inventory does not hold when the notification is handled.
C23_CreateOnlyIfAbsent ==
    [][ (pc = "watching" /\ ch # <<>> /\ ch' = Tail(ch))
        => \A i \in DOMAIN last'[1].calls :
             last'[1].calls[i].op = "POST host"
             => ~\E h \in awx.hosts : /\ h.inventory = last'[1].calls[i].id
                                      /\ h.name = last'[1].calls[i].name
      ]_vars

\* the handler has no case for the event: its payload is no resource object,
\* its object lacks metadata.namespace or metadata.name, or its type is none of
\* ADDED, MODIFIED, DELETED
Ignorable(ev) ==
    \/ ~ev.isObject
    \/ ~NamesVM(ev)
    \/ ev.Type \notin {"ADDED", "MODIFIED", "DELETED"}

\* C24: the step that receives such an event makes no gateway call, leaves the
\* cache and AWX as they were, returns no error, and leaves the loop at its
\* select with the channel open and the later events still waiting in order.
C24_IgnoredEvents ==
    [][ (pc = "watching" /\ ch # <<>> /\ ch' = Tail(ch) /\ Ignorable(Head(ch).ev))
        => /\ last'[1].ev = Head(ch).ev
           /\ last'[1].calls = <<>> /\ last'[1].err = Nil
           /\ inventoryCache' = inventoryCache /\ awx' = awx
           /\ pc' = "watching" /\ runErr' = runErr /\ chOpen' = chOpen
      ]_vars

\* an event of an unknown type that names a VM with an address was ignored,
\* and the event after it was received and handled
C24_Witness ==
    /\ HasLast /\ prev # <<>>
    /\ P.ev.Type = "BOOKMARK" /\ HasAddress(P.ev) /\ P.err = Nil
    /\ Upsert(L.ev) /\ L.dispatched /\ L.calls # <<>> /\ L.err = Nil
    /\ pc = "watching"

====
